---- MODULE Spec2Model ----
(***************************************************************************)
(* The Telegram Mini-App request authenticator of clicker-backend          *)
(* (validateTelegramAuth) and the Express pipeline around it.  Three       *)
(* snapshots of the server are modelled: server.js, and the two families   *)
(* of index.js snapshots, which differ in error handling and in the text   *)
(* of their responses.                                                     *)
(*                                                                         *)
(* Beside the pipeline of one request (Spec), the module holds the same    *)
(* pipeline serving repeated requests (SpecRepeat) and several requests at *)
(* once (SpecConcurrent), the bot's polling (SpecPolling), and the bot     *)
(* commands and API handlers that work on the database (SpecGame).         *)
(*                                                                         *)
(* Strings are sequences of one-character strings, so that parsing,        *)
(* percent-decoding, sorting and hashing are computed character by         *)
(* character.  SHA-256 is replaced by a polynomial hash of DigestBytes     *)
(* bytes; the HMAC construction around it is RFC 2104's.                   *)
(***************************************************************************)
EXTENDS Integers, Sequences, FiniteSets, TLC

\* ------------------------------------------------------------------ bounds

\* Non-hash fields a client puts in one credential blob.
MaxFields == 2

\* Bytes of a digest of the stand-in hash function (SHA-256 has 32).
DigestBytes == 1

\* Requests the server has in flight at once.
MaxInFlight == 2

\* Polling errors one bot instance meets.
MaxErrors == 2

\* Clicks one user makes.
MaxClicks == 2

\* Handlers that run on the database, at once or one after another.
MaxHandlers == 2

\* Coins a registered user holds when the handlers start, and the largest
\* amount a /transfer command names.
SeedCoins == 1
MaxAmount == 1

\* ------------------------------------------------------------- characters

\* The printable ASCII characters, in code order, starting at code 32 (code 96
\* is written "<96>").
Printable ==
    <<
       " ", "!", "\"", "#", "$", "%", "&", "'", "(", ")", "*", "+",
       ",", "-", ".", "/", "0", "1", "2", "3", "4", "5", "6", "7",
       "8", "9", ":", ";", "<", "=", ">", "?", "@", "A", "B", "C",
       "D", "E", "F", "G", "H", "I", "J", "K", "L", "M", "N", "O",
       "P", "Q", "R", "S", "T", "U", "V", "W", "X", "Y", "Z", "[",
       "\\", "]", "^", "_", "<96>", "a", "b", "c", "d", "e", "f", "g",
       "h", "i", "j", "k", "l", "m", "n", "o", "p", "q", "r", "s",
       "t", "u", "v", "w", "x", "y", "z", "{", "|", "}", "~"
    >>

NL == "\n"

\* The UTF-16 code unit (= ASCII code) of each character.
CodeOf ==
    [c \in {Printable[i] : i \in 1..Len(Printable)} \cup {NL} |->
        IF c = NL THEN 10
        ELSE 31 + (CHOOSE i \in 1..Len(Printable) : Printable[i] = c)]

CharCode(c) == CodeOf[c]

\* String.fromCharCode for the codes the model has characters for; any other
\* byte decodes to "~" (standing for U+FFFD).
CodeChar(n) ==
    IF n = 10 THEN NL
    ELSE IF n >= 32 /\ n <= 126 THEN Printable[n - 31]
    ELSE "~"

HexDigits == <<"0", "1", "2", "3", "4", "5", "6", "7", "8", "9",
               "a", "b", "c", "d", "e", "f">>

IsHexDigit(c) ==
    \/ CharCode(c) >= 48 /\ CharCode(c) <= 57
    \/ CharCode(c) >= 65 /\ CharCode(c) <= 70
    \/ CharCode(c) >= 97 /\ CharCode(c) <= 102

HexValue(c) ==
    IF CharCode(c) <= 57 THEN CharCode(c) - 48
    ELSE IF CharCode(c) <= 70 THEN CharCode(c) - 55
    ELSE CharCode(c) - 87

\* ---------------------------------------------------------------- strings

RECURSIVE Concat(_)
\* The concatenation of a sequence of strings.
Concat(ss) == IF ss = <<>> THEN <<>> ELSE Head(ss) \o Concat(Tail(ss))

RECURSIVE JoinWith(_, _)
\* Array.prototype.join(sep).
JoinWith(ss, sep) ==
    IF ss = <<>> THEN <<>>
    ELSE IF Len(ss) = 1 THEN ss[1]
    ELSE ss[1] \o sep \o JoinWith(Tail(ss), sep)

RECURSIVE StrLess(_, _)
\* a < b in UTF-16 code unit order (the order URLSearchParams.sort uses).
StrLess(a, b) ==
    IF b = <<>> THEN FALSE
    ELSE IF a = <<>> THEN TRUE
    ELSE IF CharCode(a[1]) # CharCode(b[1]) THEN CharCode(a[1]) < CharCode(b[1])
    ELSE StrLess(Tail(a), Tail(b))

RECURSIVE SplitOn(_, _)
\* String.prototype.split(c): the pieces of s between occurrences of c.
SplitOn(s, c) ==
    IF \A i \in 1..Len(s) : s[i] # c THEN <<s>>
    ELSE LET i == CHOOSE k \in 1..Len(s) :
                      s[k] = c /\ \A j \in 1..(k - 1) : s[j] # c
         IN <<SubSeq(s, 1, i - 1)>> \o SplitOn(SubSeq(s, i + 1, Len(s)), c)

\* ----------------------------------------------------------------- crypto

\* SHA-256's block size in bytes (B of RFC 2104).
BlockSize == 64

Modulus == 256 ^ DigestBytes

\* Buffer.from(s, 'utf8') for ASCII text.
Utf8(s) == [i \in 1..Len(s) |-> CharCode(s[i])]

RECURSIVE HashRange(_, _, _, _)
\* The hash state h after absorbing bytes[i..j]: h := 33 * h + byte, byte by
\* byte.  The range is halved, and the left half is computed before the right
\* half is entered, so that the nesting stays logarithmic.
HashRange(h, bytes, i, j) ==
    IF i > j THEN h
    ELSE IF i = j THEN (h * 33 + bytes[i]) % Modulus
    ELSE LET mid  == (i + j) \div 2
             left == HashRange(h, bytes, i, mid)
         IN IF left >= 0 THEN HashRange(left, bytes, mid + 1, j) ELSE 0

\* The stand-in for SHA-256: a digest of DigestBytes bytes, big-endian.
Sha256(bytes) ==
    LET n == HashRange(5381 % Modulus, bytes, 1, Len(bytes))
    IN [i \in 1..DigestBytes |-> (n \div (256 ^ (DigestBytes - i))) % 256]

RECURSIVE Xor(_, _)
\* Bitwise exclusive or of two bytes.
Xor(a, b) ==
    IF a = 0 THEN b
    ELSE IF b = 0 THEN a
    ELSE ((a + b) % 2) + 2 * Xor(a \div 2, b \div 2)

\* crypto.createHmac('sha256', key).update(msg).digest(): HMAC (RFC 2104) of
\* the bytes msg under the bytes key.
HmacSha256(key, msg) ==
    LET k0  == IF Len(key) > BlockSize THEN Sha256(key) ELSE key
        pad == [i \in 1..BlockSize |-> IF i <= Len(k0) THEN k0[i] ELSE 0]
        ipad == [i \in 1..BlockSize |-> Xor(pad[i], 54)]
        opad == [i \in 1..BlockSize |-> Xor(pad[i], 92)]
    IN Sha256(opad \o Sha256(ipad \o msg))

\* .digest('hex'): two lowercase hexadecimal digits per byte.
Hex(bytes) ==
    Concat([i \in 1..Len(bytes) |->
               <<HexDigits[(bytes[i] \div 16) + 1], HexDigits[(bytes[i] % 16) + 1]>>])

\* -------------------------------------------------------- URLSearchParams

\* null and undefined: no string holds these characters.
Null == <<"<null>">>
Undefined == <<"<undefined>">>

\* A test for a missing header that lets the empty string through.
Falsy_OnlyMissing(s) == s = Null \/ s = Undefined

\* JavaScript's !s for a string, null or undefined.
Falsy(s) == s = Null \/ s = Undefined \/ s = <<>>

RECURSIVE PercentDecodeFrom(_, _)
PercentDecodeFrom(s, i) ==
    IF i > Len(s) THEN <<>>
    ELSE IF /\ s[i] = "%"
            /\ i + 2 <= Len(s)
            /\ IsHexDigit(s[i + 1])
            /\ IsHexDigit(s[i + 2])
         THEN <<CodeChar(16 * HexValue(s[i + 1]) + HexValue(s[i + 2]))>>
                  \o PercentDecodeFrom(s, i + 3)
         ELSE <<s[i]>> \o PercentDecodeFrom(s, i + 1)

\* A parser that leaves percent escapes as they are.
PercentDecode_Identity(s) == s

\* Percent-decoding as the URL standard does it: a "%" that is not followed by
\* two hexadecimal digits stands for itself.
PercentDecode(s) == PercentDecodeFrom(s, 1)

PlusToSpace(s) == [i \in 1..Len(s) |-> IF s[i] = "+" THEN " " ELSE s[i]]

\* One name/value pair of an application/x-www-form-urlencoded string.
ParsePair(seg) ==
    IF \E i \in 1..Len(seg) : seg[i] = "="
    THEN LET i == CHOOSE k \in 1..Len(seg) :
                      seg[k] = "=" /\ \A j \in 1..(k - 1) : seg[j] # "="
         IN [key |-> PercentDecode(PlusToSpace(SubSeq(seg, 1, i - 1))),
             val |-> PercentDecode(PlusToSpace(SubSeq(seg, i + 1, Len(seg))))]
    ELSE [key |-> PercentDecode(PlusToSpace(seg)), val |-> <<>>]

\* new URLSearchParams(init) for a string: one leading "?" is dropped, empty
\* pieces between "&" are skipped.
URLSearchParams(init) ==
    LET s    == IF init # <<>> /\ init[1] = "?" THEN Tail(init) ELSE init
        segs == SelectSeq(SplitOn(s, "&"), LAMBDA seg : seg # <<>>)
    IN [i \in 1..Len(segs) |-> ParsePair(segs[i])]

\* params.get(name): the first value of that name, or null.
ParamsGet(params, name) ==
    IF \E i \in 1..Len(params) : params[i].key = name
    THEN params[CHOOSE i \in 1..Len(params) :
                    params[i].key = name
                    /\ \A j \in 1..(i - 1) : params[j].key # name].val
    ELSE Null

\* x put behind the last element whose name is not greater than x's.
InsertStable(sorted, x) ==
    LET n == Cardinality({i \in 1..Len(sorted) : ~StrLess(x.key, sorted[i].key)})
    IN SubSeq(sorted, 1, n) \o <<x>> \o SubSeq(sorted, n + 1, Len(sorted))

\* A sort that leaves the pairs in the order received.
ParamsSort_None(params) == params

RECURSIVE ParamsSort(_)
\* params.sort(): a stable sort by name, in code unit order.
ParamsSort(params) ==
    IF params = <<>> THEN <<>>
    ELSE InsertStable(ParamsSort(SubSeq(params, 1, Len(params) - 1)),
                      params[Len(params)])

\* ------------------------------------------------------------------- JSON

\* JSON values: null, non-negative integers, strings and objects (a sequence
\* of members in insertion order).
JNull == [t |-> "null"]
JNum(n) == [t |-> "num", n |-> n]
JStr(s) == [t |-> "str", s |-> s]
JObj(members) == [t |-> "obj", m |-> members]

\* obj[k] := v as JSON.parse does it: a repeated name keeps its place and
\* takes the later value.
PutMember(members, k, v) ==
    IF \E i \in 1..Len(members) : members[i].k = k
    THEN [i \in 1..Len(members) |->
             IF members[i].k = k THEN [k |-> k, v |-> v] ELSE members[i]]
    ELSE Append(members, [k |-> k, v |-> v])

IsDigit(c) == CharCode(c) >= 48 /\ CharCode(c) <= 57

ParseFail == [ok |-> FALSE, val |-> JNull, pos |-> 0]

StartsWith(s, i, lit) ==
    i + Len(lit) - 1 <= Len(s) /\ SubSeq(s, i, i + Len(lit) - 1) = lit

\* A JSON string without escapes, starting at s[i].
ParseString(s, i) ==
    IF i > Len(s) \/ s[i] # "\"" THEN ParseFail
    ELSE IF \A j \in (i + 1)..Len(s) : s[j] # "\"" THEN ParseFail
    ELSE LET j == CHOOSE k \in (i + 1)..Len(s) :
                      s[k] = "\"" /\ \A l \in (i + 1)..(k - 1) : s[l] # "\""
         IN IF \E l \in (i + 1)..(j - 1) : s[l] = "\\" \/ CharCode(s[l]) < 32
            THEN ParseFail
            ELSE [ok |-> TRUE, val |-> SubSeq(s, i + 1, j - 1), pos |-> j + 1]

RECURSIVE DigitsValue(_, _, _)
DigitsValue(s, i, j) ==
    IF j < i THEN 0 ELSE 10 * DigitsValue(s, i, j - 1) + (CharCode(s[j]) - 48)

\* A JSON integer starting at s[i]; a leading zero ends the number.
ParseNumber(s, i) ==
    LET j == IF s[i] = "0" THEN i
             ELSE CHOOSE k \in i..Len(s) :
                      /\ \A l \in i..k : IsDigit(s[l])
                      /\ (k = Len(s) \/ ~IsDigit(s[k + 1]))
    IN [ok |-> TRUE, val |-> JNum(DigitsValue(s, i, j)), pos |-> j + 1]

RECURSIVE ParseValue(_, _)
RECURSIVE ParseMembers(_, _, _)

ParseValue(s, i) ==
    IF i > Len(s) THEN ParseFail
    ELSE IF StartsWith(s, i, <<"n", "u", "l", "l">>)
         THEN [ok |-> TRUE, val |-> JNull, pos |-> i + 4]
    ELSE IF s[i] = "\""
         THEN LET r == ParseString(s, i)
              IN IF r.ok THEN [ok |-> TRUE, val |-> JStr(r.val), pos |-> r.pos]
                 ELSE ParseFail
    ELSE IF IsDigit(s[i]) THEN ParseNumber(s, i)
    ELSE IF s[i] = "{"
         THEN IF i + 1 <= Len(s) /\ s[i + 1] = "}"
              THEN [ok |-> TRUE, val |-> JObj(<<>>), pos |-> i + 2]
              ELSE ParseMembers(s, i + 1, <<>>)
    ELSE ParseFail

ParseMembers(s, i, acc) ==
    LET k == ParseString(s, i)
    IN IF ~k.ok \/ k.pos > Len(s) \/ s[k.pos] # ":" THEN ParseFail
       ELSE LET v == ParseValue(s, k.pos + 1)
            IN IF ~v.ok \/ v.pos > Len(s) THEN ParseFail
               ELSE LET acc2 == PutMember(acc, k.val, v.val)
                    IN IF s[v.pos] = "," THEN ParseMembers(s, v.pos + 1, acc2)
                       ELSE IF s[v.pos] = "}"
                            THEN [ok |-> TRUE, val |-> JObj(acc2), pos |-> v.pos + 1]
                            ELSE ParseFail

\* JSON.parse(text): text is first converted to a string, so null is read as
\* the text "null".  ok = FALSE stands for a thrown SyntaxError.
JsonParse(text) ==
    LET s == IF text = Null THEN <<"n", "u", "l", "l">> ELSE text
        r == ParseValue(s, 1)
    IN IF r.ok /\ r.pos = Len(s) + 1 THEN [ok |-> TRUE, val |-> r.val]
       ELSE [ok |-> FALSE, val |-> JNull]

RECURSIVE Decimal(_)
\* The decimal digits of a non-negative integer.
Decimal(n) ==
    IF n < 10 THEN <<HexDigits[n + 1]>>
    ELSE Decimal(n \div 10) \o <<HexDigits[(n % 10) + 1]>>

\* JSON.stringify, as the Mini-App client encodes the identity it sends.
RECURSIVE ToJson(_)
ToJson(v) ==
    IF v.t = "null" THEN <<"n", "u", "l", "l">>
    ELSE IF v.t = "num" THEN Decimal(v.n)
    ELSE IF v.t = "str" THEN <<"\"">> \o v.s \o <<"\"">>
    ELSE <<"{">>
         \o JoinWith([i \in 1..Len(v.m) |->
                         <<"\"">> \o v.m[i].k \o <<"\"", ":">> \o ToJson(v.m[i].v)],
                     <<",">>)
         \o <<"}">>

\* Characters encodeURIComponent leaves as they are.
Unreserved(c) ==
    \/ CharCode(c) >= 48 /\ CharCode(c) <= 57
    \/ CharCode(c) >= 65 /\ CharCode(c) <= 90
    \/ CharCode(c) >= 97 /\ CharCode(c) <= 122
    \/ c \in {"-", "_", ".", "!", "~", "*", "'", "(", ")"}

UpperHexDigits == <<"0", "1", "2", "3", "4", "5", "6", "7", "8", "9",
                    "A", "B", "C", "D", "E", "F">>

\* encodeURIComponent for ASCII text.
EncodeURIComponent(s) ==
    Concat([i \in 1..Len(s) |->
               IF Unreserved(s[i]) THEN <<s[i]>>
               ELSE <<"%", UpperHexDigits[(CharCode(s[i]) \div 16) + 1],
                      UpperHexDigits[(CharCode(s[i]) % 16) + 1]>>])

\* ------------------------------------------------------------ the server

\* The files a process is started from: server.js, and the three programs
\* index.js holds, by the line each begins at (src/unnamed/part_002 is the
\* first of them with the admin routes added).
Builds == {"server.js", "index.js:1", "index.js:259", "index.js:568"}

\* The snapshot whose validateTelegramAuth a build runs.
AuthFamily(b) ==
    IF b = "server.js" THEN "server"
    ELSE IF b = "index.js:1" THEN "index1"
    ELSE "index2"

\* The first build that runs a snapshot's validateTelegramAuth.
BuildOf(s) ==
    IF s = "server" THEN "server.js"
    ELSE IF s = "index1" THEN "index.js:1"
    ELSE "index.js:259"

KeyHash == <<"h", "a", "s", "h">>
KeyUser == <<"u", "s", "e", "r">>
WebAppData == <<"W", "e", "b", "A", "p", "p", "D", "a", "t", "a">>

\* process.env.TELEGRAM_BOT_TOKEN.
TELEGRAM_BOT_TOKEN == <<"7", ":", "A", "b">>

\* server.js, index.js lines 1-257 (and the unnamed copy of it), index.js
\* lines 259-830.
Snapshots == {"server", "index1", "index2"}

HasTryCatch(snapshot) == snapshot # "server"

MissingHeaderBody(snapshot) ==
    IF snapshot = "index2" THEN "Missing Telegram InitData"
    ELSE "Not authorized: Missing Telegram InitData"

InvalidHashBody(snapshot) ==
    IF snapshot = "index2" THEN "Invalid hash" ELSE "Not authorized: Invalid hash"

UserMissingBody(snapshot) ==
    IF snapshot = "index2" THEN "User data missing"
    ELSE "Invalid initData: user missing"

CatchBody(snapshot) ==
    IF snapshot = "index2" THEN "Invalid initData"
    ELSE "Invalid initData format or hash"

\* A loop that forgets to leave the hash out of the signed lines.
DataToCheck_KeepsHash(initData) ==
    LET kept == ParamsSort(initData)
    IN [i \in 1..Len(kept) |-> kept[i].key \o <<"=">> \o kept[i].val]

\* initData.sort(); initData.forEach(... key !== 'hash' && push(`${key}=${val}`)).
DataToCheck(initData) ==
    LET kept == SelectSeq(ParamsSort(initData), LAMBDA p : p.key # KeyHash)
    IN [i \in 1..Len(kept) |-> kept[i].key \o <<"=">> \o kept[i].val]

\* The key derivation with key and message exchanged.
SecretOf_Swapped(token) == HmacSha256(Utf8(token), Utf8(WebAppData))

\* createHmac('sha256', 'WebAppData').update(TELEGRAM_BOT_TOKEN).digest().
SecretOf(token) == HmacSha256(Utf8(WebAppData), Utf8(token))

Secret == SecretOf(TELEGRAM_BOT_TOKEN)

\* createHmac('sha256', secret).update(dataToCheck.join('\n')).digest('hex').
CalculatedHash(secret, dataToCheck) ==
    Hex(HmacSha256(secret, Utf8(JoinWith(dataToCheck, <<NL>>))))

\* req.user before the middleware has set it.
Unset == [t |-> "unset"]

NoResponse == [status |-> 0, body |-> "", by |-> ""]

Response(status, body, by) == [status |-> status, body |-> body, by |-> by]

\* A middleware that does not compare the hashes.
HashMismatch_Off(calculatedHash, hash) == FALSE

\* String.prototype.toLowerCase for ASCII text.
LowerCase(s) ==
    [i \in 1..Len(s) |->
        IF s[i] \in DOMAIN CodeOf /\ CharCode(s[i]) >= 65 /\ CharCode(s[i]) <= 90
        THEN CodeChar(CharCode(s[i]) + 32) ELSE s[i]]

\* A comparison that ignores the case of the hexadecimal digits.
HashMismatch_IgnoreCase(calculatedHash, hash) ==
    LowerCase(calculatedHash) # LowerCase(hash)

\* A comparison that is skipped when the blob has no hash.
HashMismatch_NullPasses(calculatedHash, hash) ==
    hash # Null /\ calculatedHash # hash

\* The hash comparison of the middleware: calculatedHash !== hash.
HashMismatch(calculatedHash, hash) == calculatedHash # hash

\* The check the index.js snapshots make before parsing: !user.
UserMissing(snapshot, user) == HasTryCatch(snapshot) /\ Falsy(user)

\* A middleware that looks for the user field before it compares the hashes.
ValidateTelegramAuth_UserFirst(snapshot, authHeader) ==
    LET initData       == URLSearchParams(authHeader)
        hash           == ParamsGet(initData, KeyHash)
        dataToCheck    == DataToCheck(initData)
        calculatedHash == CalculatedHash(Secret, dataToCheck)
        user           == ParamsGet(ParamsSort(initData), KeyUser)
        parsed         == JsonParse(user)
        locals         == [hash |-> hash, dataToCheck |-> dataToCheck,
                           secret |-> Secret, calculatedHash |-> calculatedHash]
    IN IF Falsy(authHeader)
       THEN [end |-> "response", user |-> Unset,
             locals |-> [hash |-> Undefined, dataToCheck |-> <<>>,
                         secret |-> <<>>, calculatedHash |-> <<>>],
             res |-> Response(401, MissingHeaderBody(snapshot), "auth")]
       ELSE IF Falsy(user)
       THEN [end |-> "response", user |-> Unset, locals |-> locals,
             res |-> Response(400, UserMissingBody(snapshot), "auth")]
       ELSE IF HashMismatch(calculatedHash, hash)
       THEN [end |-> "response", user |-> Unset, locals |-> locals,
             res |-> Response(403, InvalidHashBody(snapshot), "auth")]
       ELSE IF ~parsed.ok
       THEN [end |-> "response", user |-> Unset, locals |-> locals,
             res |-> Response(400, CatchBody(snapshot), "auth")]
       ELSE [end |-> "next", user |-> parsed.val, locals |-> locals,
             res |-> NoResponse]

\* A middleware that assigns req.user = JSON.parse(user) before it compares
\* the hashes, so that a rejected request keeps the identity it claimed.
ValidateTelegramAuth_ParsesFirst(snapshot, authHeader) ==
    LET initData       == URLSearchParams(authHeader)
        hash           == ParamsGet(initData, KeyHash)
        dataToCheck    == DataToCheck(initData)
        calculatedHash == CalculatedHash(Secret, dataToCheck)
        parsed         == JsonParse(ParamsGet(ParamsSort(initData), KeyUser))
        locals         == [hash |-> hash, dataToCheck |-> dataToCheck,
                           secret |-> Secret, calculatedHash |-> calculatedHash]
        attached       == IF parsed.ok THEN parsed.val ELSE Unset
    IN IF Falsy(authHeader)
       THEN [end |-> "response", user |-> Unset,
             locals |-> [hash |-> Undefined, dataToCheck |-> <<>>,
                         secret |-> <<>>, calculatedHash |-> <<>>],
             res |-> Response(401, MissingHeaderBody(snapshot), "auth")]
       ELSE IF HashMismatch(calculatedHash, hash)
       THEN [end |-> "response", user |-> attached, locals |-> locals,
             res |-> Response(403, InvalidHashBody(snapshot), "auth")]
       ELSE IF ~parsed.ok
       THEN [end |-> "response", user |-> Unset, locals |-> locals,
             res |-> Response(400, CatchBody(snapshot), "auth")]
       ELSE [end |-> "next", user |-> parsed.val, locals |-> locals,
             res |-> NoResponse]

\* validateTelegramAuth(req, res, next) on a request whose credential header
\* is authHeader.  end is "response" (the middleware answered), "next" (it
\* called next()) or "throw" (an exception left it).
ValidateTelegramAuth(snapshot, authHeader) ==
    LET initData       == URLSearchParams(authHeader)
        hash           == ParamsGet(initData, KeyHash)
        dataToCheck    == DataToCheck(initData)
        calculatedHash == CalculatedHash(Secret, dataToCheck)
        user           == ParamsGet(ParamsSort(initData), KeyUser)
        parsed         == JsonParse(user)
        locals         == [hash |-> hash, dataToCheck |-> dataToCheck,
                           secret |-> Secret, calculatedHash |-> calculatedHash]
        nolocals       == [hash |-> Undefined, dataToCheck |-> <<>>,
                           secret |-> <<>>, calculatedHash |-> <<>>]
    IN IF Falsy(authHeader)
       THEN [end |-> "response", user |-> Unset, locals |-> nolocals,
             res |-> Response(401, MissingHeaderBody(snapshot), "auth")]
       ELSE IF HashMismatch(calculatedHash, hash)
       THEN [end |-> "response", user |-> Unset, locals |-> locals,
             res |-> Response(403, InvalidHashBody(snapshot), "auth")]
       ELSE IF UserMissing(snapshot, user)
       THEN [end |-> "response", user |-> Unset, locals |-> locals,
             res |-> Response(400, UserMissingBody(snapshot), "auth")]
       ELSE IF ~parsed.ok
       THEN IF HasTryCatch(snapshot)
            THEN [end |-> "response", user |-> Unset, locals |-> locals,
                  res |-> Response(400, CatchBody(snapshot), "auth")]
            ELSE [end |-> "throw", user |-> Unset, locals |-> locals,
                  res |-> NoResponse]
       ELSE [end |-> "next", user |-> parsed.val, locals |-> locals,
             res |-> NoResponse]

\* obj[name] for a JSON value that is not null or undefined: the member's
\* value, or undefined.
Member(v, name) ==
    IF v.t = "obj" /\ \E i \in 1..Len(v.m) : v.m[i].k = name
    THEN v.m[CHOOSE i \in 1..Len(v.m) : v.m[i].k = name].v
    ELSE [t |-> "undefined"]

\* The handlers of index.js lines 259-830 read req.user inside try/catch;
\* those of server.js and of index.js lines 1-257 read it unguarded.
HandlerHasTryCatch(snapshot) == snapshot = "index2"

\* What a guarded handler answers from its catch block (GET /api/user at
\* index.js line 366; 'Server error' at line 709).
HandlerCatchResponse == Response(500, "Server error during user fetch", "handler")

\* ---------------------------------------------------------- the database

\* current_image of a new row, and equipped_image_id of a row for which no
\* image was ever selected.
DefaultImage == "default"
NoImage == "none"

\* The row /start creates for a Telegram user: the values of server.js
\* lines 188-194 and index.js lines 199-216.
DefaultRow(id, telegram_id) ==
    [id |-> id, telegram_id |-> telegram_id,
     coins |-> 0, coins_per_click |-> 1, coins_per_sec |-> 0,
     click_upgrade_level |-> 1, click_upgrade_cost |-> 10,
     auto_upgrade_level |-> 0, auto_upgrade_cost |-> 20,
     current_image |-> DefaultImage,
     total_clicks |-> 0, total_coins_earned |-> 0,
     equipped_image_id |-> NoImage]

\* What a query that matches no row returns.
NoRow == DefaultRow(0, 0)

\* The game state of a row.
GameState(row) ==
    [coins |-> row.coins, coins_per_click |-> row.coins_per_click,
     coins_per_sec |-> row.coins_per_sec,
     click_upgrade_level |-> row.click_upgrade_level,
     click_upgrade_cost |-> row.click_upgrade_cost,
     auto_upgrade_level |-> row.auto_upgrade_level,
     auto_upgrade_cost |-> row.auto_upgrade_cost,
     total_clicks |-> row.total_clicks,
     total_coins_earned |-> row.total_coins_earned,
     current_image |-> row.current_image]

\* upsert(userData, { onConflict: 'telegram_id' }) on a row that exists: the
\* columns userData names are overwritten.  The programs at index.js:1 and
\* index.js:568 name every column of the game state; the program at
\* index.js:259 names only username, first_name, last_name and last_active.
UpsertOver(row, b) ==
    IF b = "index.js:259" THEN row
    ELSE [DefaultRow(row.id, row.telegram_id)
             EXCEPT !.equipped_image_id = row.equipped_image_id]

\* ------------------------------------------------------------ the client

\* The token a forger who does not know the bot token signs with.
ForgerToken == <<"8", ":", "Z", "z">>

\* The lines the platform signs for a list of decoded fields: key=value in
\* ascending order of key, fields of one key in the order given.
PlatformLines(fields) ==
    LET n     == Len(fields)
        order == CHOOSE p \in Permutations(1..n) :
                     \A i, j \in 1..n :
                         i < j =>
                             \/ StrLess(fields[p[i]].key, fields[p[j]].key)
                             \/ fields[p[i]].key = fields[p[j]].key /\ p[i] < p[j]
    IN [i \in 1..n |-> fields[order[i]].key \o <<"=">> \o fields[order[i]].val]

\* The platform's signature of a list of decoded fields: HMAC-SHA256, keyed
\* with HMAC-SHA256("WebAppData" as key, token), of those lines joined by
\* line feeds, in lowercase hexadecimal.
PlatformSign(fields, token) ==
    Hex(HmacSha256(HmacSha256(Utf8(WebAppData), Utf8(token)),
                   Utf8(JoinWith(PlatformLines(fields), <<NL>>))))

IdField == <<"i", "d">>

\* The identities a client may present: a user object and JSON null.
Identities == {JObj(<<[k |-> IdField, v |-> JNum(42)]>>), JNull}

UserField(text) == [key |-> KeyUser, val |-> text]

\* The decoded fields a blob is built from: a JSON identity, a user field that
\* is not JSON, an empty user field, two values of one other key, and a field
\* whose value needs percent-encoding.
FieldPool ==
    {UserField(ToJson(v)) : v \in Identities}
    \cup {UserField(<<"{", "i", "d", "}">>), UserField(<<>>)}
    \cup {[key |-> <<"a">>, val |-> <<"1">>], [key |-> <<"a">>, val |-> <<"2">>],
          [key |-> <<"q">>, val |-> <<"+", "&", "=", "%", " ">>]}

FieldLists == UNION {[1..n -> FieldPool] : n \in 0..MaxFields}

\* Characters a tampering client writes over one character of a hash: sent
\* percent-encoded like the rest of the blob, or written into the header as
\* they are.
FlipChars == {"0", "f", "F", "g"}
RawFlipChars == {"&", "%"}

NoHash == [mode |-> "none", pos |-> 0, c |-> "", hash |-> <<>>, good |-> <<>>]

\* How the client fills the hash field: leaves it out, sends the platform's
\* signature, a signature under another token, or the platform's signature
\* with the character at pos replaced by c.  good is the platform's signature
\* of the fields under the bot token, whatever the client sends.
HashChoices(fields) ==
    LET good == PlatformSign(fields, TELEGRAM_BOT_TOKEN)
    IN {[mode |-> "none", pos |-> 0, c |-> "", hash |-> <<>>, good |-> good],
        [mode |-> "valid", pos |-> 0, c |-> "", hash |-> good, good |-> good],
        [mode |-> "forged", pos |-> 0, c |-> "",
         hash |-> PlatformSign(fields, ForgerToken), good |-> good]}
       \cup UNION {{[mode |-> "flipped", pos |-> p, c |-> x,
                     hash |-> [good EXCEPT ![p] = x], good |-> good] :
                        x \in FlipChars \ {good[p]}} :
                   p \in 1..Len(good)}
       \cup {[mode |-> "rawflipped", pos |-> p, c |-> x,
              hash |-> [good EXCEPT ![p] = x], good |-> good] :
                 p \in 1..Len(good), x \in RawFlipChars}

\* The header of a blob: the encoded fields, then the hash field if any.
BlobHeader(fields, sign) ==
    LET encoded == [i \in 1..Len(fields) |->
                       EncodeURIComponent(fields[i].key) \o <<"=">>
                           \o EncodeURIComponent(fields[i].val)]
        hashSeg == KeyHash \o <<"=">>
                       \o (IF sign.mode = "rawflipped" THEN sign.hash
                           ELSE EncodeURIComponent(sign.hash))
    IN JoinWith(IF sign.mode = "none" THEN encoded ELSE Append(encoded, hashSeg),
                <<"&">>)

\* Requests whose header no encoder produces, with the fields the URL
\* standard reads from it: a lone "%", only separators, a leading "?", and a
\* broken percent escape beside a hash that is no signature.
RawRequests ==
    {[kind |-> "raw", header |-> <<"%">>,
      fields |-> <<[key |-> <<"%">>, val |-> <<>>]>>, sign |-> NoHash],
     [kind |-> "raw", header |-> <<"&", "&">>, fields |-> <<>>, sign |-> NoHash],
     [kind |-> "raw", header |-> <<"?", "a", "=", "1">>,
      fields |-> <<[key |-> <<"a">>, val |-> <<"1">>]>>, sign |-> NoHash],
     [kind |-> "raw",
      header |-> <<"a", "=", "%", "z", "z", "&", "h", "a", "s", "h", "=", "z">>,
      fields |-> <<[key |-> <<"a">>, val |-> <<"%", "z", "z">>]>>,
      sign |-> [mode |-> "garbage", pos |-> 0, c |-> "", hash |-> <<"z">>,
                good |-> PlatformSign(<<[key |-> <<"a">>, val |-> <<"%", "z", "z">>]>>,
                                      TELEGRAM_BOT_TOKEN)]]}

\* Every request a client sends: without the header, with a raw header, or
\* with an encoded blob (the blob of no fields is the empty header).
Requests ==
    {[kind |-> "absent", header |-> Undefined, fields |-> <<>>, sign |-> NoHash]}
    \cup RawRequests
    \cup UNION {{[kind |-> "blob", header |-> BlobHeader(f, ch),
                  fields |-> f, sign |-> ch] : ch \in HashChoices(f)} :
                f \in FieldLists}

\* ------------------------------------------------------------------ state

VARIABLES
    snapshot,   \* which snapshot of the server is running
    req,        \* the request being served, with what the client put in it
    verdicts,   \* the headers verified so far, each with every outcome it got
                \* on its first and on its later presentations
    inflight,   \* the requests in flight when the server serves several at once
    build,      \* which file the running process was started from
    bot,        \* the TelegramBot instance of the process
    users,      \* the rows of the database table users
    userImages, \* the rows of the database table user_images
    task,       \* the command or API request the process is handling, with
                \* the handler's position and locals, and the last answer
    jobs,       \* the handlers running at once on the database, each with
                \* its position, its locals and its last answer
    transferHistory, \* the rows of the database table transfer_history
    ledger,     \* what the handlers have acknowledged and written so far
    schema      \* the constraints of the database tables

\* The database and the handler working on it.
game == <<users, userImages, task>>

\* The handlers that run at once, and what they work on besides game.
race == <<jobs, transferHistory, ledger, schema>>

vars == <<snapshot, req, verdicts, inflight, build, bot, game, race>>

\* What serving one request at a time leaves alone.
beyondAuth == <<inflight, build, bot, game, race>>

\* And what it leaves alone when it keeps no record of verdicts.
beyondRequest == <<verdicts, beyondAuth>>

NoLocals == [hash |-> Undefined, dataToCheck |-> <<>>, secret |-> <<>>,
             calculatedHash |-> <<>>]

Idle ==
    [pc |-> "idle", sent |-> CHOOSE r \in Requests : r.kind = "absent",
     authHeader |-> Undefined, end |-> "", locals |-> NoLocals, user |-> Unset,
     res |-> NoResponse, telegramId |-> [t |-> "undefined"], calls |-> <<>>,
     reply |-> NoResponse]

\* A slot for a request in flight, before a request arrives in it.
IdleSlot ==
    [pc |-> "idle", sent |-> Idle.sent, authHeader |-> Undefined, end |-> "",
     user |-> Unset, res |-> NoResponse, telegramId |-> [t |-> "undefined"]]

\* No handler has answered yet.
NoAnswer == [op |-> "", status |-> 0, body |-> ""]

\* No handler is running; last is the answer of the one that ran last.
NoTask(last) ==
    [op |-> "idle", pc |-> "", imageId |-> "", user |-> NoRow,
     found |-> FALSE, cost |-> 0, last |-> last]

\* No handler has replied in a slot yet.  wrote tells whether the handler
\* changed a row of users, logged whether it wrote a transfer_history row,
\* bought whether it inserted a user_images row.
NoReply ==
    [op |-> "", from |-> 0, status |-> 0, body |-> "", wrote |-> FALSE,
     logged |-> FALSE, bought |-> FALSE]

\* A slot before its handler starts, with op "idle", and after it replied,
\* with op "done"; last is the handler's reply, kept until the next step of
\* any handler.
IdleJob(last) ==
    [op |-> "idle", pc |-> "", from |-> 0, to |-> "", amount |-> 0,
     user |-> NoRow, recipient |-> NoRow, imageId |-> "", cost |-> 0,
     found |-> FALSE, wrote |-> FALSE, failed |-> FALSE, last |-> last]

\* Nothing was started, acknowledged or written.
NoLedger == [acked |-> <<>>, wrote |-> {}, refused |-> FALSE]

\* The users table has a UNIQUE constraint on telegram_id.
UniqueSchema == [uniqueTelegramId |-> TRUE]

\* new TelegramBot(TELEGRAM_BOT_TOKEN, { polling: true }): the instance
\* polls from its construction.  raised lists the polling errors it has
\* emitted.
NewBot == [polling |-> TRUE, raised |-> <<>>]

\* The process has started and has served nothing yet.
Fresh ==
    /\ req = Idle
    /\ verdicts = {}
    /\ inflight = [i \in 1..MaxInFlight |-> IdleSlot]
    /\ bot = NewBot
    /\ users = {}
    /\ userImages = {}
    /\ task = NoTask(NoAnswer)
    /\ jobs = [i \in 1..MaxHandlers |-> IdleJob(NoReply)]
    /\ transferHistory = {}
    /\ ledger = NoLedger
    /\ schema = UniqueSchema

Init ==
    /\ snapshot \in Snapshots
    /\ build = BuildOf(snapshot)
    /\ Fresh

\* The process was started from any of the files.
InitBuild ==
    /\ build \in Builds
    /\ snapshot = AuthFamily(build)
    /\ Fresh

\* A request for a route behind validateTelegramAuth arrives.
Receive ==
    /\ req.pc = "idle"
    /\ \E r \in Requests :
           req' = [req EXCEPT !.pc = "received", !.sent = r, !.authHeader = r.header]
    /\ UNCHANGED <<snapshot, beyondRequest>>

\* What Express's default error handler answers when an exception leaves a
\* middleware.
ExpressErrorResponse == Response(500, "Internal Server Error", "express")

\* Express runs the middleware.  An exception that leaves it is caught by the
\* router and answered by the default error handler.
Authenticate ==
    /\ req.pc = "received"
    /\ LET r == ValidateTelegramAuth(snapshot, req.authHeader)
       IN req' = [req EXCEPT
                     !.pc = IF r.end = "next" THEN "next" ELSE "responded",
                     !.end = r.end,
                     !.locals = r.locals,
                     !.user = r.user,
                     !.res = IF r.end = "throw"
                             THEN ExpressErrorResponse
                             ELSE r.res]
    /\ UNCHANGED <<snapshot, beyondRequest>>

\* The route handler starts: its first statement reads req.user.id and
\* passes it to getDBUser, the handler's first database call.  Reading a
\* property of null throws inside the async handler.  A guarded handler
\* answers 500 from its catch block (reply; res is the middleware's); in an unguarded one nothing catches the
\* exception: the promise is rejected and the request is left without a
\* response.
RouteHandler ==
    /\ req.pc = "next"
    /\ req' = IF req.user = JNull
              THEN IF HandlerHasTryCatch(snapshot)
                   THEN [req EXCEPT !.pc = "caught", !.reply = HandlerCatchResponse]
                   ELSE [req EXCEPT !.pc = "rejected"]
              ELSE [req EXCEPT !.pc = "handler",
                               !.telegramId = Member(req.user, IdField),
                               !.calls = Append(req.calls, "getDBUser")]
    /\ UNCHANGED <<snapshot, beyondRequest>>

\* The request is over; the server takes the next one.
Finish ==
    /\ req.pc \in {"responded", "handler", "rejected", "caught"}
    /\ req' = Idle
    /\ UNCHANGED <<snapshot, beyondRequest>>

Next == Receive \/ Authenticate \/ RouteHandler \/ Finish

Spec == Init /\ [][Next]_vars

\* ------------------------------------------- the same blob, presented again

\* The requests clients present again and again: one without the header, and
\* blobs of the user object alone or of another field alone, signed by the
\* platform or by a forger.
RepeatPool ==
    {r \in Requests :
        \/ r.kind = "absent"
        \/ /\ r.kind = "blob"
           /\ r.sign.mode \in {"valid", "forged"}
           /\ r.fields \in {<<UserField(ToJson(JObj(<<[k |-> IdField, v |-> JNum(42)]>>)))>>,
                             <<[key |-> <<"a">>, val |-> <<"1">>]>>}}

\* A middleware that remembers the blobs it accepted and refuses to accept
\* one a second time.
Verify_Once(authHeader) ==
    IF \E v \in verdicts : v.header = authHeader /\ v.outcome.end = "next"
    THEN [end |-> "response", user |-> Unset, locals |-> NoLocals,
          res |-> Response(403, InvalidHashBody(snapshot), "auth")]
    ELSE ValidateTelegramAuth(snapshot, authHeader)

\* validateTelegramAuth as the running server applies it to a header: it
\* reads the header and the bot token, and nothing the server keeps between
\* requests.
Verify(authHeader) == ValidateTelegramAuth(snapshot, authHeader)

ReceiveAgain ==
    /\ req.pc = "idle"
    /\ \E r \in RepeatPool :
           req' = [req EXCEPT !.pc = "received", !.sent = r, !.authHeader = r.header]
    /\ UNCHANGED <<snapshot, verdicts, beyondAuth>>

\* Express runs the middleware; the outcome is recorded beside the header,
\* with whether the header had been verified before.
AuthenticateAgain ==
    /\ req.pc = "received"
    /\ LET r == Verify(req.authHeader)
           res == IF r.end = "throw" THEN ExpressErrorResponse ELSE r.res
       IN /\ req' = [req EXCEPT
                        !.pc = IF r.end = "next" THEN "next" ELSE "responded",
                        !.end = r.end,
                        !.locals = r.locals,
                        !.user = r.user,
                        !.res = res]
          /\ verdicts' = verdicts \cup
                 {[header |-> req.authHeader,
                   again |-> \E v \in verdicts : v.header = req.authHeader,
                   outcome |-> [end |-> r.end, user |-> r.user, res |-> res]]}
    /\ UNCHANGED <<snapshot, beyondAuth>>

NextRepeat == ReceiveAgain \/ AuthenticateAgain \/ RouteHandler \/ Finish

SpecRepeat == Init /\ [][NextRepeat]_vars

\* ------------------------------------------------ several requests at once

\* The Telegram users whose clients are active at once.
ClientIds == {42, 7}

IdentityOf(id) == JObj(<<[k |-> IdField, v |-> JNum(id)]>>)

\* What those clients send: the request without the header, and for each
\* user the blob of that user's identity, signed by the platform or by a
\* forger.
ConcurrentPool ==
    {r \in Requests : r.kind = "absent"}
    \cup UNION {{[kind |-> "blob", header |-> BlobHeader(f, ch),
                  fields |-> f, sign |-> ch] :
                     ch \in {c \in HashChoices(f) : c.mode \in {"valid", "forged"}}} :
                f \in {<<UserField(ToJson(IdentityOf(id)))>> : id \in ClientIds}}

\* What is left alone while the server serves requests at once.
beyondInFlight == <<req, verdicts, build, bot, game, race>>

\* A request arrives while others are being served.
Arrive(i) ==
    /\ inflight[i].pc = "idle"
    /\ \E r \in ConcurrentPool :
           inflight' = [inflight EXCEPT ![i].pc = "received", ![i].sent = r,
                                        ![i].authHeader = r.header]
    /\ UNCHANGED <<snapshot, beyondInFlight>>

\* Express runs the middleware on request i.  The middleware has no await:
\* it runs to its end before the event loop turns to another request.
Verification(i) ==
    /\ inflight[i].pc = "received"
    /\ LET r == ValidateTelegramAuth(snapshot, inflight[i].authHeader)
       IN inflight' = [inflight EXCEPT
                          ![i].pc = IF r.end = "next" THEN "next" ELSE "responded",
                          ![i].end = r.end,
                          ![i].user = r.user,
                          ![i].res = IF r.end = "throw"
                                     THEN ExpressErrorResponse
                                     ELSE r.res]
    /\ UNCHANGED <<snapshot, beyondInFlight>>

\* A server that keeps the verified identity in one place for all requests:
\* the handler sees the identity of the first request that holds one.
HandlerIdentity_Shared(i) ==
    LET holders == {j \in 1..MaxInFlight : inflight[j].user # Unset}
    IN IF holders = {} THEN Unset
       ELSE inflight[CHOOSE j \in holders : \A k \in holders : j <= k].user

\* req.user as the handler of request i reads it: the property the
\* middleware set on that request's own req object.
HandlerIdentity(i) == inflight[i].user

\* The handler of request i runs up to its first await, getDBUser(req.user.id).
HandlerStart(i) ==
    /\ inflight[i].pc = "next"
    /\ inflight' = [inflight EXCEPT
                       ![i].pc = "handler",
                       ![i].telegramId = Member(HandlerIdentity(i), IdField)]
    /\ UNCHANGED <<snapshot, beyondInFlight>>

\* Request i is over.
Complete(i) ==
    /\ inflight[i].pc \in {"responded", "handler"}
    /\ inflight' = [inflight EXCEPT ![i] = IdleSlot]
    /\ UNCHANGED <<snapshot, beyondInFlight>>

NextConcurrent ==
    \E i \in 1..MaxInFlight :
        Arrive(i) \/ Verification(i) \/ HandlerStart(i) \/ Complete(i)

SpecConcurrent == Init /\ [][NextConcurrent]_vars

\* ---------------------------------------------------------- the bot polls

\* The needle of error.message.includes('409 Conflict').
Conflict409 == <<"4", "0", "9", " ", "C", "o", "n", "f", "l", "i", "c", "t">>

ETELEGRAM == "ETELEGRAM"

\* s.includes(sub).
Includes(s, sub) ==
    \E i \in 0..(Len(s) - Len(sub)) : SubSeq(s, i + 1, i + Len(sub)) = sub

\* The polling errors the library raises: a conflict with another instance
\* polling the same token, another answer of Telegram, the conflict text
\* under another code, in lower case and cut short, and a network error.
\* says409 tells whether the message holds the text '409 Conflict'.
PollingErrors ==
    {[code |-> ETELEGRAM, says409 |-> TRUE,
      message |-> <<"E", "T", "E", "L", "E", "G", "R", "A", "M", ":", " ", "4", "0", "9", " ", "C", "o", "n", "f", "l", "i", "c", "t", ":", " ", "t", "e", "r", "m", "i", "n", "a", "t", "e", "d">>],
     [code |-> ETELEGRAM, says409 |-> FALSE,
      message |-> <<"E", "T", "E", "L", "E", "G", "R", "A", "M", ":", " ", "4", "0", "1", " ", "U", "n", "a", "u", "t", "h", "o", "r", "i", "z", "e", "d">>],
     [code |-> "EFATAL", says409 |-> TRUE,
      message |-> <<"E", "F", "A", "T", "A", "L", ":", " ", "4", "0", "9", " ", "C", "o", "n", "f", "l", "i", "c", "t">>],
     [code |-> ETELEGRAM, says409 |-> FALSE,
      message |-> <<"E", "T", "E", "L", "E", "G", "R", "A", "M", ":", " ", "4", "0", "9", " ", "c", "o", "n", "f", "l", "i", "c", "t">>],
     [code |-> ETELEGRAM, says409 |-> FALSE,
      message |-> <<"E", "T", "E", "L", "E", "G", "R", "A", "M", ":", " ", "4", "0", "9", " ", "C", "o", "n", "f", "l", "i", "c">>],
     [code |-> "EFATAL", says409 |-> FALSE,
      message |-> <<"E", "F", "A", "T", "A", "L", ":", " ", "E", "T", "I", "M", "E", "D", "O", "U", "T">>]}

\* server.js and the program at index.js:259 register no polling_error
\* listener.
HasPollingErrorHandler(b) == b \in {"index.js:1", "index.js:568"}

\* A handler that stops on any error Telegram answers.
IsConflict_AnyTelegram(error) == error.code = ETELEGRAM

\* error.code === 'ETELEGRAM' && error.message.includes('409 Conflict').
IsConflict(error) ==
    error.code = ETELEGRAM /\ Includes(error.message, Conflict409)

\* What is left alone while the bot polls.
beyondBot == <<snapshot, req, verdicts, inflight, build, game, race>>

\* A poll fails: the library emits polling_error and, unless polling was
\* stopped, goes on polling.  The listener calls bot.stopPolling() on a
\* conflict.
PollingError(error) ==
    /\ bot.polling
    /\ Len(bot.raised) < MaxErrors
    /\ bot' = [polling |-> ~(HasPollingErrorHandler(build) /\ IsConflict(error)),
               raised |-> Append(bot.raised, error)]
    /\ UNCHANGED beyondBot

NextPolling == \E error \in PollingErrors : PollingError(error)

SpecPolling == InitBuild /\ [][NextPolling]_vars

\* ------------------------------------------------- the game: bot and API

\* The Telegram user who plays.
Player == 42

\* The images on sale, with their cost, and the image ids a client sends.
ImageCost == [cat |-> 1, dog |-> 2]
ImageIds == DOMAIN ImageCost
RequestImageIds == ImageIds \cup {"ghost"}

\* The programs that have the image routes, and those that buy through the
\* stored procedure buy_image and check ownership before a selection.
HasImageRoutes(b) == b \in {"server.js", "index.js:1", "index.js:259"}
ChecksOwnership(b) == b \in {"server.js", "index.js:1"}

\* What is left alone while commands and API requests are handled.
beyondGame == <<snapshot, req, verdicts, inflight, build, bot, race>>

\* getDBUser(telegramId): the row of that Telegram user, or null.
GetDBUser(telegramId) ==
    IF \E r \in users : r.telegram_id = telegramId
    THEN CHOOSE r \in users : r.telegram_id = telegramId
    ELSE NoRow

\* The id a new row of users gets.
NextUserId == Cardinality(users) + 1

\* A handler ends with an answer.
Answer(op, status, body) ==
    task' = NoTask([op |-> op, status |-> status, body |-> body])

\* The handler goes on to its next await.
Await(op, pc) == [task EXCEPT !.op = op, !.pc = pc]

\* supabase.from('user_images').select(...).eq('user_id', ...).eq('image_id', ...).
Owns(user_id, image_id) ==
    \E o \in userImages : o.user_id = user_id /\ o.image_id = image_id

\* /start in server.js: select the user's row.
StartSelect ==
    /\ build = "server.js"
    /\ bot.polling
    /\ task.op = "idle"
    /\ task' = [Await("start", "selected")
                   EXCEPT !.found = \E r \in users : r.telegram_id = Player]
    /\ UNCHANGED <<users, userImages, beyondGame>>

\* /start in server.js: insert the row if none was found, and greet.
StartInsert ==
    /\ task.op = "start"
    /\ task.pc = "selected"
    /\ users' = IF task.found THEN users
                ELSE users \cup {DefaultRow(NextUserId, Player)}
    /\ Answer("start", 0, "Welcome")
    /\ UNCHANGED <<userImages, beyondGame>>

\* /start in the index.js programs: upsert the user's row, and greet.
StartUpsert ==
    /\ build # "server.js"
    /\ bot.polling
    /\ task.op = "idle"
    /\ users' = IF \E r \in users : r.telegram_id = Player
                THEN {IF r.telegram_id = Player THEN UpsertOver(r, build) ELSE r :
                         r \in users}
                ELSE users \cup {DefaultRow(NextUserId, Player)}
    /\ Answer("start", 0, "Welcome")
    /\ UNCHANGED <<userImages, beyondGame>>

\* POST /api/click: getDBUser.
ClickRead ==
    /\ task.op = "idle"
    /\ LET user == GetDBUser(Player)
       IN IF user = NoRow
          THEN Answer("click", 404, "User not found")
          ELSE /\ user.total_clicks < MaxClicks
               /\ task' = [Await("click", "read") EXCEPT !.user = user]
    /\ UNCHANGED <<users, userImages, beyondGame>>

\* The row a click writes: the values the handler read, plus one click.
Clicked(row, read) ==
    [row EXCEPT !.coins = read.coins + read.coins_per_click,
                !.total_clicks = read.total_clicks + 1,
                !.total_coins_earned = read.total_coins_earned + read.coins_per_click]

\* POST /api/click in server.js, index.js:1 and index.js:568: update the row
\* with the values computed from the row read.
ClickUpdate ==
    /\ build # "index.js:259"
    /\ task.op = "click"
    /\ task.pc = "read"
    /\ users' = {IF r.id = task.user.id THEN Clicked(r, task.user) ELSE r :
                    r \in users}
    /\ IF \E r \in users : r.id = task.user.id
       THEN Answer("click", 200, "updatedUser")
       ELSE Answer("click", 500, "Failed to process click")
    /\ UNCHANGED <<userImages, beyondGame>>

\* POST /api/click in index.js:259: the stored procedure
\* increment_user_clicks adds one click to the row as it is.
ClickRpc ==
    /\ build = "index.js:259"
    /\ task.op = "click"
    /\ task.pc = "read"
    /\ users' = {IF r.id = task.user.id THEN Clicked(r, r) ELSE r : r \in users}
    /\ Answer("click", 200, "updatedUser")
    /\ UNCHANGED <<userImages, beyondGame>>

\* POST /api/images/buy: getDBUser.
BuyRead ==
    /\ HasImageRoutes(build)
    /\ task.op = "idle"
    /\ \E imageId \in RequestImageIds :
           LET user == GetDBUser(Player)
           IN IF user = NoRow
              THEN Answer("buy", 404, "User not found")
              ELSE task' = [Await("buy", "read") EXCEPT !.user = user,
                                                        !.imageId = imageId]
    /\ UNCHANGED <<users, userImages, beyondGame>>

\* POST /api/images/buy in server.js and index.js:1: the stored procedure
\* buy_image takes the cost from the row as it is and records the purchase,
\* or fails.
BuyRpc ==
    /\ ChecksOwnership(build)
    /\ task.op = "buy"
    /\ task.pc = "read"
    /\ LET row == GetDBUser(Player)
           ok  == /\ task.imageId \in ImageIds
                  /\ row.id = task.user.id
                  /\ ~Owns(row.id, task.imageId)
                  /\ row.coins >= ImageCost[task.imageId]
       IN IF ok
          THEN /\ users' = {IF r.id = row.id
                            THEN [r EXCEPT !.coins = r.coins - ImageCost[task.imageId]]
                            ELSE r : r \in users}
               /\ userImages' = userImages \cup
                      {[user_id |-> row.id, image_id |-> task.imageId]}
               /\ Answer("buy", 200, "updatedUser")
          ELSE /\ UNCHANGED <<users, userImages>>
               /\ Answer("buy", 400, "error.message")
    /\ UNCHANGED beyondGame

\* POST /api/images/buy in index.js:259: read the image's cost and compare
\* it with the coins read.
BuyCost ==
    /\ build = "index.js:259"
    /\ task.op = "buy"
    /\ task.pc = "read"
    /\ IF task.imageId \notin ImageIds
       THEN Answer("buy", 404, "Image not found.")
       ELSE IF task.user.coins < ImageCost[task.imageId]
       THEN Answer("buy", 400, "Not enough coins.")
       ELSE task' = [Await("buy", "priced") EXCEPT !.cost = ImageCost[task.imageId]]
    /\ UNCHANGED <<users, userImages, beyondGame>>

\* ... write the coins read, less the cost.
BuyUpdate ==
    /\ task.op = "buy"
    /\ task.pc = "priced"
    /\ users' = {IF r.id = task.user.id
                 THEN [r EXCEPT !.coins = task.user.coins - task.cost]
                 ELSE r : r \in users}
    /\ task' = Await("buy", "paid")
    /\ UNCHANGED <<userImages, beyondGame>>

\* ... and record the purchase.
BuyInsert ==
    /\ task.op = "buy"
    /\ task.pc = "paid"
    /\ userImages' = userImages \cup
           {[user_id |-> task.user.id, image_id |-> task.imageId]}
    /\ Answer("buy", 200, "success")
    /\ UNCHANGED <<users, beyondGame>>

\* POST /api/images/select: getDBUser.
SelectRead ==
    /\ HasImageRoutes(build)
    /\ task.op = "idle"
    /\ \E imageId \in RequestImageIds :
           LET user == GetDBUser(Player)
           IN IF user = NoRow
              THEN Answer("select", 404, "User not found")
              ELSE task' = [Await("select", "read") EXCEPT !.user = user,
                                                           !.imageId = imageId]
    /\ UNCHANGED <<users, userImages, beyondGame>>

\* POST /api/images/select in server.js and index.js:1: look for the user's
\* user_images row of the image.
SelectOwned ==
    /\ ChecksOwnership(build)
    /\ task.op = "select"
    /\ task.pc = "read"
    /\ IF Owns(task.user.id, task.imageId)
       THEN task' = Await("select", "owned")
       ELSE Answer("select", 403, "You do not own this image.")
    /\ UNCHANGED <<users, userImages, beyondGame>>

\* POST /api/images/select: store the image in the user's row, in
\* current_image after the ownership check, or, in index.js:259, in
\* equipped_image_id as soon as the user was read.
SelectUpdate ==
    /\ task.op = "select"
    /\ task.pc = IF ChecksOwnership(build) THEN "owned" ELSE "read"
    /\ users' = {IF r.id # task.user.id THEN r
                 ELSE IF ChecksOwnership(build)
                 THEN [r EXCEPT !.current_image = task.imageId]
                 ELSE [r EXCEPT !.equipped_image_id = task.imageId] : r \in users}
    /\ Answer("select", 200, "updatedUser")
    /\ UNCHANGED <<userImages, beyondGame>>

NextGame ==
    \/ StartSelect \/ StartInsert \/ StartUpsert
    \/ ClickRead \/ ClickUpdate \/ ClickRpc
    \/ BuyRead \/ BuyRpc \/ BuyCost \/ BuyUpdate \/ BuyInsert
    \/ SelectRead \/ SelectOwned \/ SelectUpdate

SpecGame == InitBuild /\ [][NextGame]_vars

\* -------------------------------------------- handlers running at once

\* The command bot (commands/transfer.js, wired by the bot's entry file)
\* works on the same database as the API server.  Each handler is a chain
\* of database calls; between two awaited calls any other handler may run.

Tasks == 1..MaxHandlers

\* The username each Telegram user has, and the usernames a /transfer
\* command names: carol has no row.
UsernameOf(telegram_id) == IF telegram_id = Player THEN "alice" ELSE "bob"
TransferTargets == {"alice", "bob", "carol"}

\* The text of a /transfer command: one the pattern does not match, or a
\* username and an amount of digits.
TransferTexts ==
    {[matches |-> FALSE, to |-> "", amount |-> 0],
     [matches |-> TRUE, to |-> "alice", amount |-> 0],
     [matches |-> TRUE, to |-> "carol", amount |-> 1]} \cup
    {[matches |-> TRUE, to |-> t, amount |-> n] :
        t \in {"alice", "bob"}, n \in 1..MaxAmount}

\* The users table when both Telegram users have registered and hold coins.
SeededUsers ==
    {[DefaultRow(1, Player) EXCEPT !.coins = SeedCoins],
     [DefaultRow(2, 7) EXCEPT !.coins = SeedCoins]}

\* What is left alone while handlers run at once.
beyondRace == <<snapshot, req, verdicts, inflight, build, bot, task>>

\* The rows of a Telegram user, and of a username.
RowsOf(telegram_id) == {r \in users : r.telegram_id = telegram_id}
RowsNamed(username) == {r \in users : UsernameOf(r.telegram_id) = username}

\* .single(): the row when the query matches exactly one, else an error and
\* no data.
Single(rows) ==
    IF Cardinality(rows) = 1 THEN CHOOSE r \in rows : TRUE ELSE NoRow

\* getDBUser(telegramId): what it may return.  server.js and index.js:259
\* ask for a single row; index.js:1 and index.js:568 take the first of the
\* rows the query returns, in the order the database returns them.
GetDBUserResults(b, telegramId) ==
    IF b \in {"server.js", "index.js:259"} THEN {Single(RowsOf(telegramId))}
    ELSE IF RowsOf(telegramId) = {} THEN {NoRow}
    ELSE RowsOf(telegramId)

\* The lowest unused slot takes the next handler.
Free(i) ==
    /\ jobs[i].op = "idle"
    /\ \A j \in Tasks : j < i => jobs[j].op # "idle"

\* The ledger after a handler of a kind wrote to users, after a click of a
\* user was acknowledged, and after the database returned an error for an
\* update or an insert.
Wrote(l, kind) == [l EXCEPT !.wrote = @ \cup {kind}]
Acked(l, telegram_id) == [l EXCEPT !.acked[telegram_id] = @ + 1]
Refused(l) == [l EXCEPT !.refused = TRUE]

\* The handler in slot i starts with its first locals, or goes on.
Runs(i, op, pc, from) ==
    [IdleJob(NoReply) EXCEPT !.op = op, !.pc = pc, !.from = from]

Goes(i, job) ==
    jobs' = [j \in Tasks |-> IF j = i THEN job
                             ELSE [jobs[j] EXCEPT !.last = NoReply]]

\* The reply of a handler, and the handler in slot i ending with it.
Reply(op, from, status, body, wrote) ==
    [op |-> op, from |-> from, status |-> status, body |-> body,
     wrote |-> wrote, logged |-> FALSE, bought |-> FALSE]

Replies(i, reply) ==
    jobs' = [j \in Tasks |-> IF j = i THEN [IdleJob(reply) EXCEPT !.op = "done"]
                             ELSE [jobs[j] EXCEPT !.last = NoReply]]

\* ---- POST /api/click

\* getDBUser, then 404 or the update's values computed from the row read.
RaceClickRead(i) ==
    /\ Free(i)
    /\ \E user \in GetDBUserResults(build, Player) :
           IF user = NoRow
           THEN Replies(i, Reply("click", Player, 404, "User not found", FALSE))
           ELSE Goes(i, [Runs(i, "click", "read", Player) EXCEPT !.user = user])
    /\ ledger' = ledger
    /\ UNCHANGED <<users, userImages, transferHistory, schema, beyondRace>>

\* The rows the click's update matches: .eq('id', user.id) in server.js,
\* .eq('telegram_id', ...) in index.js:1 and index.js:568.
ClickMatches(b, job) ==
    IF b = "server.js" THEN {r \in users : r.id = job.user.id}
    ELSE RowsOf(job.from)

\* update(updates)...select().single() in server.js, index.js:1 and
\* index.js:568.  An error is answered with 500; index.js:1 answers the
\* updated row at once, server.js and index.js:568 await one more call.
RaceClickUpdate(i) ==
    /\ build # "index.js:259"
    /\ jobs[i].op = "click"
    /\ jobs[i].pc = "read"
    /\ LET hit == ClickMatches(build, jobs[i])
           u   == jobs[i].from
       IN /\ users' = {IF r \in hit THEN Clicked(r, jobs[i].user) ELSE r :
                          r \in users}
          /\ IF Cardinality(hit) # 1
             THEN /\ Replies(i, Reply("click", u, 500, "Failed to process click",
                                      hit # {}))
                  /\ ledger' = Wrote(ledger, "click")
             ELSE IF build = "index.js:1"
             THEN /\ Replies(i, Reply("click", u, 200, "updatedUser", TRUE))
                  /\ ledger' = Acked(Wrote(ledger, "click"), u)
             ELSE /\ Goes(i, [jobs[i] EXCEPT !.pc = "updated", !.wrote = TRUE])
                  /\ ledger' = Wrote(ledger, "click")
    /\ UNCHANGED <<userImages, transferHistory, schema, beyondRace>>

\* server.js: rpc('check_and_grant_achievements'); index.js:568: the
\* user_logs insert; then res.json(updatedUser).
RaceClickAnswer(i) ==
    /\ jobs[i].op = "click"
    /\ jobs[i].pc = "updated"
    /\ Replies(i, Reply("click", jobs[i].from, 200, "updatedUser", TRUE))
    /\ ledger' = Acked(ledger, jobs[i].from)
    /\ UNCHANGED <<users, userImages, transferHistory, schema, beyondRace>>

\* index.js:259: the stored procedure increment_user_clicks adds one click
\* to the row as it is, and the handler answers the updated row.
RaceClickRpc(i) ==
    /\ build = "index.js:259"
    /\ jobs[i].op = "click"
    /\ jobs[i].pc = "read"
    /\ users' = {IF r.id = jobs[i].user.id THEN Clicked(r, r) ELSE r :
                    r \in users}
    /\ Replies(i, Reply("click", jobs[i].from, 200, "updatedUser", TRUE))
    /\ ledger' = Acked(Wrote(ledger, "click"), jobs[i].from)
    /\ UNCHANGED <<userImages, transferHistory, schema, beyondRace>>

\* ---- the command bot's click: handleWebAppClick

\* Select the user's single row.
BotClickRead(i) ==
    /\ Free(i)
    /\ LET user == Single(RowsOf(Player))
       IN IF user = NoRow
          THEN Replies(i, Reply("botclick", Player, 0, "Error: User not found", FALSE))
          ELSE Goes(i, [Runs(i, "botclick", "read", Player) EXCEPT !.user = user])
    /\ ledger' = ledger
    /\ UNCHANGED <<users, userImages, transferHistory, schema, beyondRace>>

\* update(updates).eq('telegram_id', userId): the values computed from the
\* row read; the update's error is not looked at.
BotClickUpdate(i) ==
    /\ jobs[i].op = "botclick"
    /\ jobs[i].pc = "read"
    /\ users' = {IF r.telegram_id = jobs[i].from
                 THEN Clicked(r, jobs[i].user) ELSE r : r \in users}
    /\ Replies(i, Reply("botclick", jobs[i].from, 0, "You clicked",
                        RowsOf(jobs[i].from) # {}))
    /\ ledger' = Wrote(ledger, "botclick")
    /\ UNCHANGED <<userImages, transferHistory, schema, beyondRace>>

\* ---- the command bot's /transfer

UsageText == "Usage: /transfer @username amount"
PositiveText == "Enter a positive number of coins."
SenderNotFoundText == "Sender not found."
NotEnoughText == "Not enough coins."
RecipientNotFoundText == "User @x not found."
TransferFailedText == "Transfer failed."
SentText == "You sent n coins to @x"

\* The row the sender's update writes and the row the recipient's update
\* writes: the coins read by the handler, less or plus the amount.
Debited_FromStored(row, read, amount) == [row EXCEPT !.coins = row.coins - amount]

Debited(row, read, amount) == [row EXCEPT !.coins = read.coins - amount]

Credited(row, read, amount) == [row EXCEPT !.coins = read.coins + amount]

\* Match the text, parse the amount, select the sender's single row and
\* compare its coins with the amount.
TransferSender(i) ==
    /\ Free(i)
    /\ \E u \in ClientIds : \E text \in TransferTexts :
           LET sender == Single(RowsOf(u))
               fails(body) == Replies(i, Reply("transfer", u, 0, body, FALSE))
           IN IF ~text.matches THEN fails(UsageText)
              ELSE IF text.amount <= 0 THEN fails(PositiveText)
              ELSE IF sender = NoRow THEN fails(SenderNotFoundText)
              ELSE IF sender.coins < text.amount THEN fails(NotEnoughText)
              ELSE Goes(i, [Runs(i, "transfer", "sender", u) EXCEPT
                               !.to = text.to, !.amount = text.amount,
                               !.user = sender])
    /\ ledger' = ledger
    /\ UNCHANGED <<users, userImages, transferHistory, schema, beyondRace>>

\* Select the single row of the username.
TransferRecipient(i) ==
    /\ jobs[i].op = "transfer"
    /\ jobs[i].pc = "sender"
    /\ LET recipient == Single(RowsNamed(jobs[i].to))
       IN IF recipient = NoRow
          THEN Replies(i, Reply("transfer", jobs[i].from, 0,
                                RecipientNotFoundText, FALSE))
          ELSE Goes(i, [jobs[i] EXCEPT !.pc = "recipient",
                                       !.recipient = recipient])
    /\ UNCHANGED <<users, userImages, transferHistory, ledger, schema, beyondRace>>

\* update({ coins: sender.coins - amount }).eq('telegram_id', userId); the
\* database carries the update out or returns an error.
TransferDebit(i) ==
    /\ jobs[i].op = "transfer"
    /\ jobs[i].pc = "recipient"
    /\ \E ok \in BOOLEAN :
           /\ users' = IF ok
                       THEN {IF r.telegram_id = jobs[i].from
                             THEN Debited(r, jobs[i].user, jobs[i].amount)
                             ELSE r : r \in users}
                       ELSE users
           /\ Goes(i, [jobs[i] EXCEPT !.pc = "debited", !.failed = ~ok,
                                      !.wrote = users' # users])
           /\ ledger' = IF ok THEN Wrote(ledger, "transfer") ELSE Refused(ledger)
    /\ UNCHANGED <<userImages, transferHistory, schema, beyondRace>>

\* update({ coins: recipient.coins + amount }).eq('id', recipient.id), then
\* 'Transfer failed.' if either update returned an error.
TransferCredit(i) ==
    /\ jobs[i].op = "transfer"
    /\ jobs[i].pc = "debited"
    /\ \E ok \in BOOLEAN :
           /\ users' = IF ok
                       THEN {IF r.id = jobs[i].recipient.id
                             THEN Credited(r, jobs[i].recipient, jobs[i].amount)
                             ELSE r : r \in users}
                       ELSE users
           /\ IF jobs[i].failed \/ ~ok
              THEN Replies(i, Reply("transfer", jobs[i].from, 0, TransferFailedText,
                                    jobs[i].wrote \/ users' # users))
              ELSE Goes(i, [jobs[i] EXCEPT !.pc = "credited",
                                           !.wrote = @ \/ users' # users])
           /\ ledger' = IF ok THEN Wrote(ledger, "transfer") ELSE Refused(ledger)
    /\ UNCHANGED <<userImages, transferHistory, schema, beyondRace>>

\* Insert the transfer_history row and tell the sender.
TransferLog(i) ==
    /\ jobs[i].op = "transfer"
    /\ jobs[i].pc = "credited"
    /\ transferHistory' = transferHistory \cup
           {[from_user_id |-> jobs[i].user.id,
             to_user_id |-> jobs[i].recipient.id, amount |-> jobs[i].amount]}
    /\ Replies(i, [Reply("transfer", jobs[i].from, 0, SentText, jobs[i].wrote)
                      EXCEPT !.logged = TRUE])
    /\ UNCHANGED <<users, userImages, ledger, schema, beyondRace>>

\* ---- /start

\* The insert of a row for a Telegram user: refused when the table has the
\* UNIQUE constraint and holds a row of that user.
Inserted(telegram_id) ==
    IF schema.uniqueTelegramId /\ RowsOf(telegram_id) # {} THEN users
    ELSE users \cup {DefaultRow(NextUserId, telegram_id)}

\* server.js: select the user's single row.
RaceStartSelect(i) ==
    /\ build = "server.js"
    /\ Free(i)
    /\ \E u \in ClientIds :
           Goes(i, [Runs(i, "start", "selected", u) EXCEPT
                       !.found = Single(RowsOf(u)) # NoRow])
    /\ ledger' = ledger
    /\ UNCHANGED <<users, userImages, transferHistory, schema, beyondRace>>

\* server.js: insert the row if the select returned none, and greet.
RaceStartInsert(i) ==
    /\ jobs[i].op = "start"
    /\ jobs[i].pc = "selected"
    /\ users' = IF jobs[i].found THEN users ELSE Inserted(jobs[i].from)
    /\ Replies(i, Reply("start", jobs[i].from, 0, "Welcome", users' # users))
    /\ ledger' = IF users' # users THEN Wrote(ledger, "start") ELSE ledger
    /\ UNCHANGED <<userImages, transferHistory, schema, beyondRace>>

\* The index.js programs: upsert with onConflict 'telegram_id', which the
\* database refuses when the column has no UNIQUE constraint.
RaceStartUpsert(i) ==
    /\ build # "server.js"
    /\ Free(i)
    /\ \E u \in ClientIds :
           IF ~schema.uniqueTelegramId
           THEN /\ users' = users
                /\ Replies(i, Reply("start", u, 0, "Sorry, an error occurred", FALSE))
                /\ ledger' = ledger
           ELSE /\ users' = IF RowsOf(u) # {}
                            THEN {IF r.telegram_id = u THEN UpsertOver(r, build)
                                  ELSE r : r \in users}
                            ELSE users \cup {DefaultRow(NextUserId, u)}
                /\ Replies(i, Reply("start", u, 0, "Welcome", users' # users))
                /\ ledger' = IF users' # users
                             THEN Wrote(ledger, "start")
                             ELSE ledger
    /\ UNCHANGED <<userImages, transferHistory, schema, beyondRace>>

\* ---- POST /api/images/buy of index.js:259

\* getDBUser.
RaceBuyRead(i) ==
    /\ build = "index.js:259"
    /\ Free(i)
    /\ \E imageId \in RequestImageIds :
           LET user == Single(RowsOf(Player))
           IN IF user = NoRow
              THEN Replies(i, Reply("buy", Player, 404, "User not found", FALSE))
              ELSE Goes(i, [Runs(i, "buy", "read", Player) EXCEPT
                               !.user = user, !.imageId = imageId])
    /\ ledger' = ledger
    /\ UNCHANGED <<users, userImages, transferHistory, schema, beyondRace>>

\* Select the image's cost and compare it with the coins read.
RaceBuyCost(i) ==
    /\ jobs[i].op = "buy"
    /\ jobs[i].pc = "read"
    /\ LET fails(status, body) ==
               Replies(i, Reply("buy", jobs[i].from, status, body, FALSE))
       IN IF jobs[i].imageId \notin ImageIds THEN fails(404, "Image not found.")
          ELSE IF jobs[i].user.coins < ImageCost[jobs[i].imageId]
          THEN fails(400, "Not enough coins.")
          ELSE Goes(i, [jobs[i] EXCEPT !.pc = "priced",
                                       !.cost = ImageCost[jobs[i].imageId]])
    /\ UNCHANGED <<users, userImages, transferHistory, ledger, schema, beyondRace>>

\* update({ coins: dbUser.coins - image.cost }).eq('id', dbUser.id); an
\* error is thrown to the catch block.
RaceBuyUpdate(i) ==
    /\ jobs[i].op = "buy"
    /\ jobs[i].pc = "priced"
    /\ \E ok \in BOOLEAN :
           IF ok
           THEN /\ users' = {IF r.id = jobs[i].user.id
                             THEN [r EXCEPT !.coins = jobs[i].user.coins - jobs[i].cost]
                             ELSE r : r \in users}
                /\ Goes(i, [jobs[i] EXCEPT !.pc = "paid", !.wrote = users' # users])
                /\ ledger' = Wrote(ledger, "buy")
           ELSE /\ users' = users
                /\ Replies(i, Reply("buy", jobs[i].from, 500,
                                    "Could not purchase image.", FALSE))
                /\ ledger' = Refused(ledger)
    /\ UNCHANGED <<userImages, transferHistory, schema, beyondRace>>

\* insert({ user_id, image_id }) into user_images, whose rows get a serial
\* id here so that two purchases of one image are two rows; an error is
\* thrown to the catch block.
RaceBuyInsert(i) ==
    /\ jobs[i].op = "buy"
    /\ jobs[i].pc = "paid"
    /\ \E ok \in BOOLEAN :
           IF ok
           THEN /\ userImages' = userImages \cup
                       {[id |-> Cardinality(userImages) + 1,
                         user_id |-> jobs[i].user.id, image_id |-> jobs[i].imageId]}
                /\ Replies(i, [Reply("buy", jobs[i].from, 200, "success",
                                     jobs[i].wrote) EXCEPT !.bought = TRUE])
                /\ ledger' = ledger
           ELSE /\ userImages' = userImages
                /\ Replies(i, Reply("buy", jobs[i].from, 500,
                                    "Could not purchase image.", jobs[i].wrote))
                /\ ledger' = Refused(ledger)
    /\ UNCHANGED <<users, transferHistory, schema, beyondRace>>

\* The process before any handler has started.
RaceFresh ==
    /\ snapshot = AuthFamily(build)
    /\ req = Idle
    /\ verdicts = {}
    /\ inflight = [i \in 1..MaxInFlight |-> IdleSlot]
    /\ bot = NewBot
    /\ userImages = {}
    /\ task = NoTask(NoAnswer)
    /\ jobs = [i \in Tasks |-> IdleJob(NoReply)]
    /\ transferHistory = {}
    /\ ledger = [NoLedger EXCEPT !.acked = [u \in ClientIds |-> 0]]

\* Clicks at once, through the API and through the command bot, after both
\* users registered.
InitRace ==
    /\ build \in Builds
    /\ users = SeededUsers
    /\ schema = UniqueSchema
    /\ RaceFresh

NextRace ==
    \E i \in Tasks :
        \/ RaceClickRead(i) \/ RaceClickUpdate(i) \/ RaceClickAnswer(i)
        \/ RaceClickRpc(i)
        \/ BotClickRead(i) \/ BotClickUpdate(i)

SpecRace == InitRace /\ [][NextRace]_vars

\* The command bot's handlers at once: /transfer commands and clicks,
\* after both users registered.  No API request is served meanwhile.
InitTransfer ==
    /\ build = "server.js"
    /\ users = SeededUsers
    /\ schema = UniqueSchema
    /\ RaceFresh

NextTransfer ==
    \E i \in Tasks :
        \/ BotClickRead(i) \/ BotClickUpdate(i)
        \/ TransferSender(i) \/ TransferRecipient(i) \/ TransferDebit(i)
        \/ TransferCredit(i) \/ TransferLog(i)

SpecTransfer == InitTransfer /\ [][NextTransfer]_vars

\* /start commands at once, on a database with or without the UNIQUE
\* constraint, before or after the users registered.
InitStart ==
    /\ build \in Builds
    /\ users \in {{}, SeededUsers}
    /\ schema \in {[uniqueTelegramId |-> unique] : unique \in BOOLEAN}
    /\ RaceFresh

NextStart ==
    \E i \in Tasks :
        \/ RaceStartSelect(i) \/ RaceStartInsert(i) \/ RaceStartUpsert(i)

SpecStart == InitStart /\ [][NextStart]_vars

\* The users table when the player holds the coins the dearest image costs.
BuyerUsers == {[DefaultRow(1, Player) EXCEPT !.coins = ImageCost.dog]}

\* Purchases at once in the program at index.js:259.
InitBuy ==
    /\ build = "index.js:259"
    /\ users = BuyerUsers
    /\ schema = UniqueSchema
    /\ RaceFresh

NextBuy ==
    \E i \in Tasks :
        \/ RaceBuyRead(i) \/ RaceBuyCost(i) \/ RaceBuyUpdate(i)
        \/ RaceBuyInsert(i)

SpecBuy == InitBuy /\ [][NextBuy]_vars

\* ----------------------------------------------------------------- claims

\* The middleware has run on the request.
Authenticated == req.pc \notin {"idle", "received"}

\* next() was called for the request.
Accepted == req.pc \in {"next", "handler", "rejected", "caught"}

\* The request's blob carries a hash, and it is the platform's signature of
\* its other fields under the bot token.
SentHashValid ==
    /\ req.sent.kind \in {"blob", "raw"}
    /\ req.sent.sign.mode # "none"
    /\ req.sent.sign.hash = req.sent.sign.good

\* The blob has no hash field.
SentNoHash == req.sent.kind \in {"blob", "raw"} /\ req.sent.sign.mode = "none"

SentHasUser == \E i \in 1..Len(req.sent.fields) : req.sent.fields[i].key = KeyUser

\* The value of the blob's first user field.
SentUser ==
    req.sent.fields[CHOOSE i \in 1..Len(req.sent.fields) :
                        /\ req.sent.fields[i].key = KeyUser
                        /\ \A j \in 1..(i - 1) : req.sent.fields[j].key # KeyUser].val

\* The response by which each snapshot reports a hash that does not match.
InvalidSignatureResponse == Response(403, InvalidHashBody(snapshot), "auth")

\* C1: a route handler behind validateTelegramAuth runs (next() is called,
\* req.user is set) only for a request whose blob's hash equals the HMAC of
\* its other fields under the bot token, and a handler reads no field of a
\* blob that has not passed that check.
C1_HandlerOnlyAfterValidHash ==
    /\ Accepted => SentHashValid
    /\ req.user # Unset => Accepted /\ SentHashValid
    /\ req.telegramId.t # "undefined" => SentHashValid

\* A correctly signed request whose handler has read the identity's id.
C1_Witness == req.pc = "handler" /\ req.telegramId = JNum(42)

\* C2: a blob whose hash is the correct signature of its other fields and
\* whose user field is valid JSON is accepted, and req.user is the JSON value
\* the client encoded into the user field.
C2_RoundTrip ==
    \A v \in Identities :
        (Authenticated /\ SentHashValid /\ SentHasUser /\ SentUser = ToJson(v))
            => Accepted /\ req.user = v

\* An accepted request carrying the user object, among other fields.
C2_Witness ==
    /\ req.pc = "next"
    /\ req.user = JObj(<<[k |-> IdField, v |-> JNum(42)]>>)
    /\ Len(req.sent.fields) > 1

\* C3: replacing one character of the hash of a blob by a different
\* character makes verification answer 403 invalid hash, and the handler is
\* not invoked.
C3_FlippedHashRejected ==
    (Authenticated /\ req.sent.sign.mode \in {"flipped", "rawflipped"})
        => /\ req.pc = "responded"
           /\ req.res = InvalidSignatureResponse
           /\ req.user = Unset

\* An otherwise valid blob, one character of its hash replaced, answered 403.
C3_Witness ==
    /\ Authenticated
    /\ req.sent.sign.mode = "flipped"
    /\ SentHasUser
    /\ SentUser = ToJson(JObj(<<[k |-> IdField, v |-> JNum(42)]>>))
    /\ req.res.status = 403

\* The header with its "&"-separated pieces in the order p.
Reorder(header, p) ==
    LET segs == SplitOn(header, "&")
    IN JoinWith([i \in 1..Len(segs) |-> segs[p[i]]], <<"&">>)

\* What the middleware did with the request, and what it would do with the
\* header h.
RecordedOutcome == [end |-> req.end, user |-> req.user, res |-> req.res]

OutcomeFor(h) ==
    LET r == ValidateTelegramAuth(snapshot, h)
    IN [end |-> r.end, user |-> r.user,
        res |-> IF r.end = "throw" THEN ExpressErrorResponse ELSE r.res]

\* The blob's keys, hash included, are pairwise distinct.
SentKeysDistinct ==
    /\ \A i, j \in 1..Len(req.sent.fields) :
           i # j => req.sent.fields[i].key # req.sent.fields[j].key
    /\ \A i \in 1..Len(req.sent.fields) : req.sent.fields[i].key # KeyHash

\* The blobs whose pieces the formulas of C4 reorder.
Reorderable ==
    /\ Authenticated
    /\ req.sent.kind = "blob"
    /\ req.sent.sign.mode # "rawflipped"

\* C4 as stated: two raw blobs holding the same key=value pairs in different
\* orders get the same outcome and, when accepted, the same identity.
C4_AnyReorderSameOutcome ==
    Reorderable =>
        \A p \in Permutations(1..Len(SplitOn(req.authHeader, "&"))) :
            OutcomeFor(Reorder(req.authHeader, p)) = RecordedOutcome

\* C4 amended: two raw blobs holding the same key=value pairs in different
\* orders, no key occurring twice, get the same outcome and, when accepted,
\* the same identity.
C4_ReorderDistinctKeysSameOutcome ==
    (Reorderable /\ SentKeysDistinct) =>
        \A p \in Permutations(1..Len(SplitOn(req.authHeader, "&"))) :
            OutcomeFor(Reorder(req.authHeader, p)) = RecordedOutcome

\* An accepted blob of distinct keys that was not sent in ascending order of
\* key: user, then a, then hash.
C4_Witness ==
    /\ Accepted
    /\ SentKeysDistinct
    /\ Len(req.sent.fields) = 2
    /\ req.sent.fields[1].key = KeyUser
    /\ req.sent.fields[2].key = <<"a">>

C6_MissingUserRejected ==
    (Authenticated /\ SentHashValid /\ ~SentHasUser)
        => /\ req.pc = "responded"
           /\ req.user = Unset
           /\ req.res.by = "auth"

\* C7: a blob whose signature is valid and whose user field is not JSON is
\* rejected by the middleware itself with an authentication failure; the
\* handler is not invoked.
C7_MalformedIdentityRejected ==
    (Authenticated /\ SentHashValid /\ SentHasUser
         /\ SentUser = <<"{", "i", "d", "}">>)
        => /\ req.pc = "responded"
           /\ req.res.by = "auth"
           /\ req.res.status \in {400, 401, 403}

\* The lowercase hexadecimal digits.
IsLowerHex(s) == \A i \in 1..Len(s) : \E k \in 1..16 : HexDigits[k] = s[i]

\* C8 as stated: the signing key is HMAC-SHA256 with the bot token as key
\* and "WebAppData" as message, and the candidate hash is the lowercase
\* hexadecimal HMAC-SHA256 of the check-string under it.
C8_KeyIsTokenKeyedHmac ==
    (Authenticated /\ req.res.status # 401)
        => LET key == HmacSha256(Utf8(TELEGRAM_BOT_TOKEN), Utf8(WebAppData))
           IN /\ req.locals.secret = key
              /\ req.locals.calculatedHash =
                     Hex(HmacSha256(key, Utf8(JoinWith(req.locals.dataToCheck, <<NL>>))))

\* C8 amended: the signing key is HMAC-SHA256 with "WebAppData" as key and
\* the bot token as message, used as raw bytes, and the candidate hash is the
\* lowercase hexadecimal HMAC-SHA256 of the check-string under it.
C8_KeyIsWebAppDataKeyedHmac ==
    (Authenticated /\ req.res.status # 401)
        => LET key == HmacSha256(Utf8(WebAppData), Utf8(TELEGRAM_BOT_TOKEN))
           IN /\ req.locals.secret = key
              /\ Len(req.locals.secret) = DigestBytes
              /\ req.locals.calculatedHash =
                     Hex(HmacSha256(key, Utf8(JoinWith(req.locals.dataToCheck, <<NL>>))))
              /\ IsLowerHex(req.locals.calculatedHash)
              /\ Len(req.locals.calculatedHash) = 2 * DigestBytes

\* A verification whose candidate hash matched the platform's signature.
C8_Witness ==
    /\ Accepted
    /\ req.sent.sign.mode = "valid"
    /\ req.locals.calculatedHash = req.sent.sign.hash
    /\ req.locals.dataToCheck # <<>>

\* C9: the signed check-string is the fields other than hash, each as
\* key=value with key and value percent-decoded, in ascending order of key,
\* joined by single line feeds with none before or after; the hash field
\* does not contribute.  (The empty blob is answered 401 before any
\* check-string is built.)
C9_CheckString ==
    (Authenticated /\ req.sent.kind \in {"blob", "raw"}
         /\ req.authHeader # <<>>
         /\ req.sent.sign.mode # "rawflipped")
        => /\ req.locals.dataToCheck = PlatformLines(req.sent.fields)
           /\ JoinWith(req.locals.dataToCheck, <<NL>>)
                  = JoinWith(PlatformLines(req.sent.fields), <<NL>>)
           /\ req.locals.hash = IF req.sent.sign.mode = "none" THEN Null
                                ELSE req.sent.sign.hash

\* A blob sent as user, q, hash, where q's value needs decoding: its
\* check-string is the q line, then the user line.
C9_Witness ==
    /\ Authenticated
    /\ req.sent.sign.mode = "valid"
    /\ Len(req.sent.fields) = 2
    /\ req.sent.fields[1].key = KeyUser
    /\ req.sent.fields[2].key = <<"q">>
    /\ Len(req.locals.dataToCheck) = 2
    /\ req.locals.dataToCheck[1] = <<"q", "=", "+", "&", "=", "%", " ">>

\* C10: every request that fails authentication gets the same response, so
\* also the one a request without the header gets.
C10_FailuresIndistinguishable ==
    (Authenticated /\ ~Accepted)
        => /\ req.res.status = OutcomeFor(Undefined).res.status
           /\ req.res.body = OutcomeFor(Undefined).res.body

\* C11: every request that fails authentication is answered with status 401
\* or 403, and for every request that passes, the middleware answers nothing
\* and the request goes on to its route handler.
C11_FailureIs401Or403 ==
    /\ (Authenticated /\ ~Accepted) => req.res.status \in {401, 403}
    /\ Accepted => req.end = "next" /\ (req.pc = "next" => req.res = NoResponse)

\* C12: whatever the credential blob, handling the request ends in a
\* response: no exception leaves the middleware, and the handler that reads
\* req.user.id does not throw.
C12_AlwaysAnswered ==
    /\ req.end # "throw"
    /\ req.pc # "rejected"

\* C13: a verification changes nothing but the request it verifies, makes no
\* database or bot call, and leaves what the client sent as it was; when it
\* rejects, req.user stays unset and next() is not called; when it accepts,
\* it answers nothing and attaches the identity.
C13_VerificationFrame ==
    [][Authenticate =>
          /\ UNCHANGED <<snapshot, beyondRequest>>
          /\ req'.calls = <<>>
          /\ req'.sent = req.sent
          /\ req'.authHeader = req.authHeader
          /\ req'.telegramId = req.telegramId
          /\ req'.end # "next" => req'.user = Unset /\ req'.pc = "responded"
          /\ req'.end = "next" => req'.user # Unset /\ req'.res = NoResponse]_vars

\* A rejected blob that carries a well-formed identity: nothing is attached.
C13_Witness ==
    /\ req.pc = "responded"
    /\ req.res.status = 403
    /\ SentHasUser
    /\ SentUser = ToJson(JObj(<<[k |-> IdField, v |-> JNum(42)]>>))
    /\ req.user = Unset
    /\ req.calls = <<>>

OwnIdentity(i) == JsonParse(inflight[i].sent.fields[1].val).val

OwnHashValid(i) ==
    /\ inflight[i].sent.kind = "blob"
    /\ inflight[i].sent.sign.hash = inflight[i].sent.sign.good

\* C15: whatever other requests are in flight, and wherever they stand, a
\* request is accepted exactly when its own blob carries the platform's
\* signature, the identity attached to it is the one in its own blob, and
\* its handler looks up that identity's id; a rejected request gets none.
C15_OwnBlobDecides ==
    \A i \in 1..MaxInFlight :
        inflight[i].pc \notin {"idle", "received"} =>
            /\ inflight[i].pc \in {"next", "handler"} <=> OwnHashValid(i)
            /\ inflight[i].pc \in {"next", "handler"} =>
                   inflight[i].user = OwnIdentity(i)
            /\ inflight[i].pc = "handler" =>
                   inflight[i].telegramId = Member(OwnIdentity(i), IdField)
            /\ inflight[i].pc = "responded" =>
                   /\ inflight[i].user = Unset
                   /\ inflight[i].res =
                          ValidateTelegramAuth(snapshot, inflight[i].authHeader).res

\* The handlers of two requests run at once for two different users, each
\* with its own user's id.
C15_Witness ==
    \E i, j \in 1..MaxInFlight :
        /\ inflight[i].pc = "handler"
        /\ inflight[j].pc = "handler"
        /\ inflight[i].telegramId = JNum(42)
        /\ inflight[j].telegramId = JNum(7)

\* The responses by which the index.js snapshots report a missing user.
MissingUserResponse == Response(400, UserMissingBody(snapshot), "auth")

\* The blob carries a hash, and it is not the platform's signature.
SentHashWrong ==
    /\ req.sent.kind \in {"blob", "raw"}
    /\ req.sent.sign.mode # "none"
    /\ req.sent.sign.hash # req.sent.sign.good

C17_NoHeaderIs401 ==
    (Authenticated /\ (req.authHeader = Undefined \/ req.authHeader = <<>>))
        => /\ req.pc = "responded"
           /\ req.res = Response(401, MissingHeaderBody(snapshot), "auth")
           /\ req.locals = NoLocals
           /\ req.user = Unset
           /\ req.calls = <<>>

\* A request with an empty credential header, answered 401.
C17_Witness ==
    /\ req.pc = "responded"
    /\ req.sent.kind = "blob"
    /\ req.authHeader = <<>>
    /\ req.res.status = 401

\* A conflict has been raised: an error of code ETELEGRAM whose message
\* holds '409 Conflict'.
ConflictRaised ==
    \E i \in 1..Len(bot.raised) :
        bot.raised[i].code = ETELEGRAM /\ bot.raised[i].says409

\* C19: an instance that registers the polling_error listener has stopped
\* polling exactly when a conflict has been raised, so any other polling
\* error leaves it polling; and an instance that has stopped polling does
\* not poll again.
C19_StopsOnConflictOnly ==
    /\ [](HasPollingErrorHandler(build) => (bot.polling <=> ~ConflictRaised))
    /\ [][~bot.polling => ~bot'.polling]_vars

\* An instance that kept polling through another error and stopped on the
\* conflict that followed.
C19_Witness ==
    /\ ~bot.polling
    /\ Len(bot.raised) = MaxErrors
    /\ bot.raised[1].code = ETELEGRAM
    /\ ~bot.raised[1].says409

\* C18: a /start of a user who has a row leaves the game state of every
\* row as it was.
C18_StartKeepsGameState ==
    [][(StartInsert \/ StartUpsert) =>
          \A r \in users :
              \E n \in users' : n.id = r.id /\ GameState(n) = GameState(r)]_vars

\* C20: the image selected in a user's row is the initial one or an image
\* of which the user has a user_images row.
C20_SelectedIsOwned ==
    \A r \in users :
        /\ r.current_image = DefaultImage \/ Owns(r.id, r.current_image)
        /\ r.equipped_image_id = NoImage \/ Owns(r.id, r.equipped_image_id)

\* ------------------------------------------------ claims on handlers at once

\* No handler is between two of its database calls.
Quiet == \A i \in Tasks : jobs[i].op \in {"idle", "done"}

\* C21: for a user with fixed coins_per_click and no other mutation of the
\* row, once k POST /api/click requests have each received a success
\* response, in any interleaving, the stored total_clicks has grown by k and
\* the stored coins and total_coins_earned by k * coins_per_click.
C21_NoAcknowledgedClickLost ==
    (Quiet /\ ledger.wrote \subseteq {"click"}) =>
        \A r \in users :
            LET k == ledger.acked[r.telegram_id]
            IN /\ r.total_clicks = k
               /\ r.total_coins_earned = k * r.coins_per_click
               /\ r.coins = SeedCoins + k * r.coins_per_click

\* The coins of a set of rows, added up.
RECURSIVE SumCoins(_)
SumCoins(rows) ==
    IF rows = {} THEN 0
    ELSE LET r == CHOOSE x \in rows : TRUE
         IN r.coins + SumCoins(rows \ {r})

\* C22: after any sequence or interleaving of /transfer commands, none of
\* which met a database error, and with no click in between, the coins of
\* all users add up to what they added up to before; a user may name
\* themself as recipient, and two transfers may touch one account at once.
C22_TransferConservesCoins ==
    (Quiet /\ ledger.wrote \subseteq {"transfer"} /\ ~ledger.refused) =>
        SumCoins(users) = SumCoins(SeededUsers)

\* The replies with which /transfer reports a failure.
TransferFailureTexts ==
    {UsageText, PositiveText, SenderNotFoundText, NotEnoughText,
     RecipientNotFoundText, TransferFailedText}

\* C23: when /transfer replies with a failure message, the command has
\* changed neither the sender's nor the recipient's coins and has written
\* no transfer_history row.
C23_FailedTransferChangesNothing ==
    \A i \in Tasks :
        (jobs[i].last.op = "transfer" /\ jobs[i].last.body \in TransferFailureTexts)
            => (~jobs[i].last.wrote /\ ~jobs[i].last.logged)

\* C24: starting from non-negative balances and non-negative
\* coins_per_click, under any interleaving of /transfer commands and clicks
\* of the command bot, no user's stored coins is ever negative.
C24_CoinsNeverNegative == \A r \in users : r.coins >= 0

\* Two /transfer commands of one sender have both read the sender's balance
\* before either lowered it, both have lowered it, and the sender is left
\* with no coins.
C24_Witness ==
    \E i \in Tasks : \E j \in Tasks :
        /\ i # j
        /\ jobs[i].op = "transfer" /\ jobs[j].op = "transfer"
        /\ jobs[i].from = jobs[j].from
        /\ jobs[i].pc = "debited" /\ jobs[j].pc = "debited"
        /\ ~jobs[i].failed /\ ~jobs[j].failed
        /\ jobs[i].user.coins = jobs[j].user.coins
        /\ jobs[i].amount + jobs[j].amount > jobs[i].user.coins
        /\ \A r \in RowsOf(jobs[i].from) : r.coins = 0

\* C25: after any interleaving of /start commands, two commands of one
\* Telegram user at once included, the users table holds at most one row
\* per telegram_id.
C25_OneRowPerTelegramId ==
    \A u \in ClientIds : Cardinality(RowsOf(u)) <= 1

\* The cost of the images of a set of user_images rows, added up.
RECURSIVE SumCost(_)
SumCost(rows) ==
    IF rows = {} THEN 0
    ELSE LET o == CHOOSE x \in rows : TRUE
         IN ImageCost[o.image_id] + SumCost(rows \ {o})

\* C26: in the direct POST /api/images/buy handler a user's coins are
\* reduced by an image's cost if and only if a user_images row of that user
\* and image is inserted: a request answered with an error has left the
\* coins unchanged, and once the requests have been answered, at once or
\* one after another, the coins the user has paid are the costs of the rows
\* inserted, never more than the balance the user had.
C26_PaidIffBought ==
    /\ \A i \in Tasks :
           (jobs[i].last.op = "buy" /\ jobs[i].last.status >= 400)
               => ~jobs[i].last.wrote
    /\ Quiet =>
           \A r \in users :
               /\ SumCoins(BuyerUsers) - r.coins =
                      SumCost({o \in userImages : o.user_id = r.id})
               /\ SumCost({o \in userImages : o.user_id = r.id})
                      <= SumCoins(BuyerUsers)

====
